---- MODULE Spec2Model ----
(***************************************************************************)
(* ShARC ingestion and validation pipeline:                                *)
(*   parse_gdb.py           parse_gdb_dat        (text -> meta, edges)     *)
(*   build_instance_gdb.py  floyd_warshall, build_carp_instance            *)
(*   conversionguardrail.py ShARCGaurdrail.validate_instance               *)
(* Each component is a state machine with its own specification            *)
(* (SpecFW, SpecBuild, SpecParse, SpecGuard); the variables of the other   *)
(* components stay at their initial values.                                *)
(***************************************************************************)
EXTENDS Integers, Sequences, FiniteSets, TLC

VARIABLES
    pc,          \* position in floyd_warshall / build_carp_instance
    parsed,      \* build_carp_instance: its argument (meta, required_edges)
    n,           \* floyd_warshall / build_carp_instance: n
    edges,       \* floyd_warshall: the graph of the entries of edges read so far
    dist,        \* floyd_warshall: dist, rows and columns 0..n
    nread,       \* floyd_warshall: how many entries of the edge list were read
    dist_plain,  \* dist of the same loops run without the skip of lines 25-26
    k,           \* floyd_warshall: the outer loop variable
    depot,       \* build_carp_instance: depot
    capacity,    \* build_carp_instance: capacity
    unreachable, \* build_carp_instance: unreachable
    raised,      \* build_carp_instance: the exception raised, "" when none
    bundle       \* build_carp_instance: the dictionary returned

bvars == <<pc, parsed, n, edges, nread, dist_plain, dist, k, depot, capacity,
           unreachable, raised, bundle>>

VARIABLES
    gpc,         \* position in validate_instance
    req,         \* validate_instance: req, rows (u, v, demand, cost)
    nonreq,      \* validate_instance: nonreq, rows (u, v, demand, cost)
    Q,           \* ShARCGaurdrail: self.Q
    report,      \* validate_instance: report (Status, Issues)
    dist_matrix, \* validate_instance: dist_matrix
    samples,     \* validate_instance: iterations of the sampling loop begun
    graised      \* validate_instance: the exception raised, "" when none

gvars == <<gpc, req, nonreq, Q, report, dist_matrix, samples, graised>>

VARIABLES
    ppc,             \* position in parse_gdb_dat
    meta,            \* parse_gdb_dat: meta (normalized key -> value)
    required_edges,  \* parse_gdb_dat: required_edges
    in_req_list,     \* parse_gdb_dat: in_req_list
    seen_req_header, \* parse_gdb_dat: seen_req_header
    canonical,       \* parse_gdb_dat: canonical
    warnings,        \* parse_gdb_dat: warnings
    nlines,          \* the number of lines of the text read so far
    line,            \* parse_gdb_dat: line, the last line read
    marker_lines     \* the number of those that start with LISTA_ARISTAS_REQ

pvars == <<ppc, meta, required_edges, in_req_list, seen_req_header,
           canonical, warnings, nlines, line, marker_lines>>

vars == <<bvars, gvars, pvars>>

(***************************************************************************)
(* Bounds of the model.                                                    *)
(***************************************************************************)
MaxN == 3          \* largest vertex count drawn for floyd_warshall
MaxEdges == 3      \* longest edge list drawn for floyd_warshall
Weights == {0, 1, 3}   \* edge weights drawn (non-negative integers)

(***************************************************************************)
(* Floats: math.inf is the value Inf; every finite value of the model is   *)
(* a small non-negative integer, which float() represents exactly.         *)
(***************************************************************************)
Inf == -1

\* a + b on floats with math.inf
Add(a, b) == IF a = Inf \/ b = Inf THEN Inf ELSE a + b

\* a < b on floats with math.inf
Less(a, b) == a # Inf /\ (b = Inf \/ a < b)

\* Python's min(a, b): b when b < a, else a
MinF(a, b) == IF Less(b, a) THEN b ELSE a

(***************************************************************************)
(* floyd_warshall(n, edges)                                                *)
(***************************************************************************)
\* dist = [[math.inf]*(n+1) for _ in range(n+1)]
NewMatrix(nn) == [i \in 0..nn |-> [j \in 0..nn |-> Inf]]

\* for i in range(1, n+1): dist[i][i] = 0.0
SetDiagonal(d, nn) ==
    [i \in 0..nn |-> [j \in 0..nn |-> IF i = j /\ i >= 1 THEN 0 ELSE d[i][j]]]

\* dist[u][v] and dist[v][u] exist (u, v are never negative: PAIR_RE reads \d+)
InRange(nn, e) == e.u \in 0..nn /\ e.v \in 0..nn

\* one pass of "for u,v,w in edges", the mutant without the reverse direction
SetEdgeOneWay(d, e) == [d EXCEPT ![e.u][e.v] = MinF(@, e.w)]

\* one pass of "for u,v,w in edges" that stores float(w) without the min
SetEdgeOverwrite(d, e) ==
    LET d1 == [d EXCEPT ![e.u][e.v] = e.w]
    IN  [d1 EXCEPT ![e.v][e.u] = e.w]

\* dist[u][v] = min(dist[u][v], float(w)); dist[v][u] = min(dist[v][u], float(w))
SetEdge(d, e) ==
    LET d1 == [d EXCEPT ![e.u][e.v] = MinF(@, e.w)]
    IN  [d1 EXCEPT ![e.v][e.u] = MinF(@, e.w)]

RECURSIVE SetEdges(_, _, _)
SetEdges(d, es, idx) ==
    IF idx > Len(es) THEN d
    ELSE SetEdges(SetEdge(d, es[idx]), es, idx + 1)

\* for j in range(1, n+1): alt = dik + dk[j]; if alt < di[j]: di[j] = alt
\* (dk and di are the rows themselves: dk[j] is read from the current matrix)
RECURSIVE InnerJ(_, _, _, _, _, _)
InnerJ(d, nn, kk, i, dik, j) ==
    IF j > nn THEN d
    ELSE LET alt == Add(dik, d[kk][j])
             d1 == IF Less(alt, d[i][j]) THEN [d EXCEPT ![i][j] = alt] ELSE d
         IN  InnerJ(d1, nn, kk, i, dik, j + 1)

\* the loop over i without lines 25-26: the inner loop runs for every i
RECURSIVE LoopIPlain(_, _, _, _)
LoopIPlain(d, nn, kk, i) ==
    IF i > nn THEN d
    ELSE LoopIPlain(InnerJ(d, nn, kk, i, d[i][kk], 1), nn, kk, i + 1)

\* the body of "for k in range(1, n+1)" for one k, without lines 25-26
OuterKPlain(d, nn, kk) == LoopIPlain(d, nn, kk, 1)

\* the loop over i with the test of line 25 written "if not dik", which
\* also skips a dik of 0.0
RECURSIVE LoopISkipsZero(_, _, _, _)
LoopISkipsZero(d, nn, kk, i) ==
    IF i > nn THEN d
    ELSE LET dik == d[i][kk]
         IN  IF dik = Inf \/ dik = 0 THEN LoopISkipsZero(d, nn, kk, i + 1)
             ELSE LoopISkipsZero(InnerJ(d, nn, kk, i, dik, 1), nn, kk, i + 1)

\* for i in range(1, n+1): dik = dist[i][k]; if dik == math.inf: continue; ...
RECURSIVE LoopI(_, _, _, _)
LoopI(d, nn, kk, i) ==
    IF i > nn THEN d
    ELSE LET dik == d[i][kk]
         IN  IF dik = Inf THEN LoopI(d, nn, kk, i + 1)
             ELSE LoopI(InnerJ(d, nn, kk, i, dik, 1), nn, kk, i + 1)

\* the body of "for k in range(1, n+1)" for one k
OuterK(d, nn, kk) == LoopI(d, nn, kk, 1)

\* the whole call, on an edge list all of whose endpoints are in range
RECURSIVE OuterLoop(_, _, _)
OuterLoop(d, nn, kk) ==
    IF kk > nn THEN d ELSE OuterLoop(OuterK(d, nn, kk), nn, kk + 1)

floyd_warshall(nn, es) ==
    OuterLoop(SetEdges(SetDiagonal(NewMatrix(nn), nn), es, 1), nn, 1)

(***************************************************************************)
(* floyd_warshall as a state machine.  The edge list is read one entry at  *)
(* a time, so every list of at most MaxEdges entries, in every order, in   *)
(* both orientations and with repeated entries, is run.  edges records the *)
(* undirected graph the entries read so far describe: the entry (u, v, w)  *)
(* as the edge between u and v of weight w, written with u <= v.  nread is  *)
(* the number of entries read.                                             *)
(***************************************************************************)
EdgeSet(nn) == [u : 1..nn, v : 1..nn, w : Weights]

Undirected(e) ==
    IF e.u <= e.v THEN e ELSE [u |-> e.v, v |-> e.u, w |-> e.w]

\* lines 17-19: one pass of "for u,v,w in edges"
FWEdge ==
    /\ pc = "fw_edges"
    /\ nread < MaxEdges
    /\ \E e \in EdgeSet(n) :
          /\ dist' = SetEdge(dist, e)
          /\ dist_plain' = SetEdge(dist_plain, e)
          /\ edges' = edges \cup {Undirected(e)}
    /\ nread' = nread + 1
    /\ UNCHANGED <<pc, n, k, parsed, depot, capacity, unreachable, raised, bundle,
                   gvars, pvars>>

\* the edge list is exhausted: the outer loop starts at k = 1
FWEdgesDone ==
    /\ pc = "fw_edges"
    /\ pc' = "fw_loop"
    /\ k' = 1
    /\ UNCHANGED <<n, edges, nread, dist, dist_plain, parsed, depot, capacity, unreachable, raised, bundle,
                   gvars, pvars>>

\* lines 21-31: one iteration of the outer loop
FWIter ==
    /\ pc = "fw_loop"
    /\ k <= n
    /\ dist' = OuterK(dist, n, k)
    /\ dist_plain' = OuterKPlain(dist_plain, n, k)
    /\ k' = k + 1
    /\ UNCHANGED <<pc, n, edges, nread, parsed, depot, capacity, unreachable, raised, bundle,
                   gvars, pvars>>

\* line 32: return dist
FWReturn ==
    /\ pc = "fw_loop"
    /\ k > n
    /\ pc' = "fw_returned"
    /\ UNCHANGED <<n, edges, nread, dist, dist_plain, k, parsed, depot, capacity, unreachable, raised, bundle,
                   gvars, pvars>>

FWNext == FWEdge \/ FWEdgesDone \/ FWIter \/ FWReturn

NoBundle == <<>>

\* no line of the text was read yet
NoLine ==
    [blank |-> TRUE, marker |-> FALSE, pair |-> FALSE, cost |-> FALSE,
     dem |-> FALSE, hdr |-> FALSE, key |-> "", val |-> [kind |-> "none", val |-> 0],
     edge |-> [u |-> 0, v |-> 0, cost |-> 0, demand |-> 0, required |-> TRUE]]

\* parse_gdb_dat is not running
ParserIdle ==
    /\ ppc = "idle"
    /\ meta = <<>>
    /\ required_edges = <<>>
    /\ in_req_list = FALSE
    /\ seen_req_header = FALSE
    /\ canonical = <<>>
    /\ warnings = <<>>
    /\ nlines = 0
    /\ line = NoLine
    /\ marker_lines = 0

\* validate_instance is not running
GuardIdle ==
    /\ gpc = "idle"
    /\ req = {}
    /\ nonreq = {}
    /\ Q = 0
    /\ report = [Status |-> "PASS", Issues |-> <<>>]
    /\ dist_matrix = <<>>
    /\ samples = 0
    /\ graised = ""

NoParsed == [meta |-> <<>>, required_edges |-> <<>>]

\* lines 15-16 have run: the matrix exists, with its diagonal set
InitFW ==
    /\ pc = "fw_edges"
    /\ n \in 1..MaxN
    /\ dist = SetDiagonal(NewMatrix(n), n)
    /\ dist_plain = SetDiagonal(NewMatrix(n), n)
    /\ edges = {}
    /\ nread = 0
    /\ k = 0
    /\ parsed = NoParsed
    /\ depot = 0
    /\ capacity = 0
    /\ unreachable = <<>>
    /\ raised = ""
    /\ bundle = NoBundle
    /\ GuardIdle
    /\ ParserIdle

SpecFW == InitFW /\ [][FWNext]_vars

(***************************************************************************)
(* The shortest-path distance of the undirected graph, from its            *)
(* definition: the least total weight of a path, parallel edges counting   *)
(* with their least weight.                                                *)
(***************************************************************************)
SetMin(S) == CHOOSE x \in S : \A y \in S : x <= y

SetMax(S) == CHOOSE x \in S : \A y \in S : x >= y

EdgeWeights(es, a, b) == {e.w : e \in {f \in es : {f.u, f.v} = {a, b}}}

\* the least weight of an edge between a and b, math.inf when there is none
EdgeWeight(es, a, b) ==
    IF EdgeWeights(es, a, b) = {} THEN Inf ELSE SetMin(EdgeWeights(es, a, b))

\* the least element of a set of distances (math.inf the greatest)
Least(S) == CHOOSE m \in S : \A y \in S : ~Less(y, m)

\* the least weight of a walk from a to b of at most h + 1 edges, given in
\* prev the least weights of the walks of at most h edges and in wt the
\* edge weights
Extend(prev, wt, nn, a, b) ==
    Least({prev[a][b]} \cup {Add(prev[a][c], wt[c][b]) : c \in 1..nn})

RECURSIVE ExtendRow(_, _, _, _, _, _)
ExtendRow(cur, prev, wt, nn, a, b) ==
    IF b > nn THEN cur
    ELSE ExtendRow([cur EXCEPT ![a][b] = Extend(prev, wt, nn, a, b)],
                   prev, wt, nn, a, b + 1)

RECURSIVE ExtendAll(_, _, _, _, _)
ExtendAll(cur, prev, wt, nn, a) ==
    IF a > nn THEN cur
    ELSE ExtendAll(ExtendRow(cur, prev, wt, nn, a, 1), prev, wt, nn, a + 1)

\* Walks(wt, nn, h)[a][b]: the least total weight of a walk from a to b of at
\* most h edges over the vertices 1..nn, math.inf when there is none
RECURSIVE Walks(_, _, _)
Walks(wt, nn, h) ==
    IF h = 0 THEN [a \in 1..nn |-> [b \in 1..nn |-> IF a = b THEN 0 ELSE Inf]]
    ELSE LET prev == Walks(wt, nn, h - 1)
         IN  ExtendAll(prev, prev, wt, nn, 1)

\* the edge weights of the graph, as a matrix (filled entry by entry)
RECURSIVE WeightRow(_, _, _, _, _)
WeightRow(wt, es, nn, a, b) ==
    IF b > nn THEN wt
    ELSE WeightRow([wt EXCEPT ![a][b] = EdgeWeight(es, a, b)], es, nn, a, b + 1)

RECURSIVE WeightRows(_, _, _, _)
WeightRows(wt, es, nn, a) ==
    IF a > nn THEN wt
    ELSE WeightRows(WeightRow(wt, es, nn, a, 1), es, nn, a + 1)

WeightMatrix(es, nn) ==
    WeightRows([a \in 1..nn |-> [b \in 1..nn |-> Inf]], es, nn, 1)

\* a shortest path repeats no vertex, so has at most nn - 1 edges
ShortestPaths(es, nn) == Walks(WeightMatrix(es, nn), nn, nn - 1)

\* C4: when floyd_warshall returns, dist[i][j] is, for all i, j in 1..n, the
\* least total weight of a path between i and j in the undirected graph of
\* the edges (parallel edges at their least weight), and math.inf exactly
\* when there is no path.
C4_Exact ==
    pc = "fw_returned" =>
        LET sp == ShortestPaths(edges, n)
        IN  \A i, j \in 1..n : dist[i][j] = sp[i][j]

\* C4 witness: the detour 1-2-3 (1 + 1 = 2) beats the direct edge 1-3 (3)
C4_Witness ==
    /\ pc = "fw_returned"
    /\ n = 3
    /\ edges = {[u |-> 1, v |-> 2, w |-> 1], [u |-> 2, v |-> 3, w |-> 1],
                [u |-> 1, v |-> 3, w |-> 3]}
    /\ dist[1][3] = 2
    /\ dist[3][1] = 2

\* C11: the matrix floyd_warshall returns, for edges with endpoints in 1..n
\* and non-negative weights, has dist[i][i] = 0 for every i in 1..n and
\* dist[i][j] = dist[j][i] for every i, j in 1..n.
C11_ZeroDiagonalSymmetric ==
    pc = "fw_returned" =>
        /\ \A i \in 1..n : dist[i][i] = 0
        /\ \A i, j \in 1..n : dist[i][j] = dist[j][i]

\* C11 witness: a self-loop of weight 3 at vertex 2, entries read in both
\* orientations, and a distance 1-3 made of two edges
C11_Witness ==
    /\ pc = "fw_returned"
    /\ n = 3
    /\ [u |-> 2, v |-> 2, w |-> 3] \in edges
    /\ dist[2][2] = 0
    /\ dist[1][3] = 4
    /\ dist[3][1] = 4

\* C13: the skip of lines 25-26 changes nothing: after the edge list, after
\* every iteration of the outer loop and at the return, dist is the matrix
\* of the same loops run without the skip.
C13_SkipChangesNothing == pc \in {"fw_edges", "fw_loop", "fw_returned"} => dist = dist_plain

\* C13 witness: iteration k = 1 has skipped i = 3 (dist[3][1] is math.inf)
\* and iteration k = 2 has relaxed dist[1][3] through vertex 2
C13_Witness ==
    /\ pc = "fw_loop"
    /\ n = 3
    /\ k = 3
    /\ edges = {[u |-> 1, v |-> 2, w |-> 1], [u |-> 2, v |-> 3, w |-> 1]}
    /\ dist[1][3] = 2
    /\ dist = dist_plain

(***************************************************************************)
(* build_carp_instance(parsed)                                             *)
(*                                                                         *)
(* A value of the parsed meta is an integer, None (the header is absent)   *)
(* or a string int() rejects (coerce_value keeps what is not -?\d+).       *)
(***************************************************************************)
IntVal(x) == [kind |-> "int", val |-> x]
NoneVal == [kind |-> "none", val |-> 0]
StrVal == [kind |-> "str", val |-> 0]

\* what int(v) raises: TypeError on None, ValueError on a string like "x"
IntRaises(v) ==
    CASE v.kind = "none" -> "TypeError"
      [] v.kind = "str" -> "ValueError"
      [] OTHER -> ""

\* graph_edges = [(t["u"], t["v"], t["cost"]) for t in tasks]
GraphEdges(tasks) ==
    [i \in 1..Len(tasks) |->
        [u |-> tasks[i].u, v |-> tasks[i].v, w |-> tasks[i].cost]]

\* dist[depot] on a list of nn + 1 rows: Python counts a negative index from
\* the end, and raises IndexError outside -(nn+1)..nn
RowExists(nn, d) == -(nn + 1) <= d /\ d <= nn
RowIndex(nn, d) == IF d < 0 THEN d + nn + 1 ELSE d

\* [i for i in range(1, n+1) if dist[depot][i] == math.inf]
RECURSIVE UnreachableFrom(_, _, _, _)
UnreachableFrom(d, nn, row, i) ==
    IF i > nn THEN <<>>
    ELSE (IF d[row][i] = Inf THEN <<i>> ELSE <<>>)
         \o UnreachableFrom(d, nn, row, i + 1)

\* lines 36-46: the three int() conversions, then floyd_warshall, which
\* raises IndexError on an edge with an endpoint above n
BuildCall ==
    /\ pc = "build"
    /\ LET build_meta == parsed.meta
           tasks == parsed.required_edges
           err == IF IntRaises(build_meta.n_vertices) # ""
                  THEN IntRaises(build_meta.n_vertices)
                  ELSE IF IntRaises(build_meta.depot) # ""
                  THEN IntRaises(build_meta.depot)
                  ELSE IntRaises(build_meta.capacity)
           nn == build_meta.n_vertices.val
           graph_edges == GraphEdges(tasks)
       IN  IF err # ""
           THEN /\ pc' = "raised"
                /\ raised' = err
                /\ UNCHANGED <<n, depot, capacity, dist>>
           ELSE /\ n' = nn
                /\ depot' = build_meta.depot.val
                /\ capacity' = build_meta.capacity.val
                /\ IF \A i \in 1..Len(tasks) : InRange(nn, graph_edges[i])
                   THEN /\ dist' = floyd_warshall(nn, graph_edges)
                        /\ pc' = "build_check"
                        /\ UNCHANGED raised
                   ELSE /\ pc' = "raised"
                        /\ raised' = "IndexError"
                        /\ UNCHANGED dist
    /\ UNCHANGED <<parsed, edges, nread, dist_plain, k, unreachable, bundle,
                   gvars, pvars>>

\* lines 48-61: the reachability check, then the bundle
BuildCheck ==
    /\ pc = "build_check"
    /\ IF n >= 1 /\ ~RowExists(n, depot)
       THEN /\ pc' = "raised"
            /\ raised' = "IndexError"
            /\ UNCHANGED <<unreachable, bundle>>
       ELSE LET unr == IF n >= 1
                       THEN UnreachableFrom(dist, n, RowIndex(n, depot), 1)
                       ELSE <<>>
            IN  /\ unreachable' = unr
                /\ IF unr # <<>>
                   THEN /\ pc' = "raised"
                        /\ raised' = "ValueError"
                        /\ UNCHANGED bundle
                   ELSE /\ pc' = "returned"
                        /\ bundle' = [name |-> parsed.meta.name,
                                      n_vertices |-> n,
                                      depot |-> depot,
                                      capacity |-> capacity,
                                      n_tasks |-> Len(parsed.required_edges),
                                      tasks |-> parsed.required_edges,
                                      dist |-> dist]
                        /\ UNCHANGED raised
    /\ UNCHANGED <<parsed, n, edges, nread, dist_plain, dist, k, depot, capacity,
                   gvars, pvars>>

BuildNext == BuildCall \/ BuildCheck

(***************************************************************************)
(* SpecBuild: build_carp_instance on what parse_gdb_dat can hand it: any   *)
(* integer, None or a string for VERTICES, DEPOSITO and CAPACIDAD; edge    *)
(* endpoints that are any non-negative integers.                           *)
(***************************************************************************)
MaxTasks == 2
VertexCounts == {NoneVal, StrVal} \cup {IntVal(x) : x \in -1..2}
Depots == {NoneVal, StrVal} \cup {IntVal(x) : x \in -3..3}
Capacities == {NoneVal, IntVal(2)}
Tasks == [u : 0..3, v : 0..3, cost : {1}, demand : {1, 3}, required : {TRUE}]

SeqsUpTo(S, len) == UNION {[1..m -> S] : m \in 0..len}

InitBuild ==
    /\ pc = "build"
    /\ parsed \in [meta : [name : {"gdb"}, n_vertices : VertexCounts,
                           depot : Depots, capacity : Capacities],
                   required_edges : SeqsUpTo(Tasks, MaxTasks)]
    /\ n = 0
    /\ edges = {}
    /\ nread = 0
    /\ dist_plain = <<>>
    /\ dist = <<>>
    /\ k = 0
    /\ depot = 0
    /\ capacity = 0
    /\ unreachable = <<>>
    /\ raised = ""
    /\ bundle = NoBundle
    /\ GuardIdle
    /\ ParserIdle

SpecBuild == InitBuild /\ [][BuildNext]_vars

\* the parsed input names at least one vertex
HasVertices == parsed.meta.n_vertices.kind = "int" /\ parsed.meta.n_vertices.val >= 1

\* every edge of the parsed input joins two vertices of 1..n_vertices
EndpointsDeclared ==
    \A i \in 1..Len(parsed.required_edges) :
        /\ parsed.required_edges[i].u \in 1..parsed.meta.n_vertices.val
        /\ parsed.required_edges[i].v \in 1..parsed.meta.n_vertices.val

\* the declared depot is a vertex of 1..n_vertices
DepotDeclared ==
    /\ parsed.meta.depot.kind = "int"
    /\ parsed.meta.depot.val \in 1..parsed.meta.n_vertices.val

\* C2: every bundle build_carp_instance returns has demand <= capacity for
\* every task of its task list (a task with demand > capacity makes the
\* build fail).  Stated for the inputs that are otherwise well formed: at
\* least one vertex, the depot and every endpoint in 1..n_vertices.
C2_DemandWithinCapacity ==
    (pc = "returned" /\ HasVertices /\ DepotDeclared /\ EndpointsDeclared) =>
        \A i \in 1..Len(bundle.tasks) : bundle.tasks[i].demand <= bundle.capacity

\* the vertices joined to the vertices of S by a path of task edges
RECURSIVE Joined(_, _)
Joined(tasks, S) ==
    LET T == S \cup {tasks[i].v : i \in {j \in 1..Len(tasks) : tasks[j].u \in S}}
                \cup {tasks[i].u : i \in {j \in 1..Len(tasks) : tasks[j].v \in S}}
    IN  IF T = S THEN S ELSE Joined(tasks, T)

\* the vertices of 1..nn at no finite distance from the declared depot d
FarFromDepot(tasks, nn, d) == {i \in 1..nn : i \notin Joined(tasks, {d})}

RECURSIVE SeqOfSet(_, _, _)
SeqOfSet(S, i, last) ==
    IF i > last THEN <<>>
    ELSE (IF i \in S THEN <<i>> ELSE <<>>) \o SeqOfSet(S, i + 1, last)

\* C3: build_carp_instance returns a bundle only if every vertex of
\* 1..n_vertices is at a finite distance from the declared depot; otherwise
\* it raises the error that lists exactly the vertices at infinite distance.
\* Stated for the inputs with integer VERTICES >= 1, DEPOSITO and CAPACIDAD
\* whose edges all join vertices of 1..n_vertices.
C3_UnreachableReported ==
    (pc \in {"returned", "raised"} /\ HasVertices /\ EndpointsDeclared
        /\ parsed.meta.depot.kind = "int" /\ parsed.meta.capacity.kind = "int") =>
        LET far == FarFromDepot(parsed.required_edges, parsed.meta.n_vertices.val,
                                parsed.meta.depot.val)
        IN  IF far = {}
            THEN TRUE
            ELSE /\ pc = "raised"
                 /\ raised = "ValueError"
                 /\ unreachable = SeqOfSet(far, 1, parsed.meta.n_vertices.val)

\* C8: every bundle build_carp_instance returns has depot in 1..n_vertices,
\* whatever integers DEPOSITO and VERTICES are.  Stated for the inputs with
\* at least one vertex whose edges all join vertices of 1..n_vertices.
C8_DepotInRange ==
    (pc = "returned" /\ HasVertices /\ EndpointsDeclared) =>
        (1 <= bundle.depot /\ bundle.depot <= bundle.n_vertices)

\* C9: every task of a returned bundle has both endpoints in 1..n_vertices.
\* Stated for the inputs with at least one vertex and the depot in
\* 1..n_vertices.
C9_EndpointsInRange ==
    (pc = "returned" /\ HasVertices /\ DepotDeclared) =>
        \A i \in 1..Len(bundle.tasks) :
            /\ bundle.tasks[i].u \in 1..bundle.n_vertices
            /\ bundle.tasks[i].v \in 1..bundle.n_vertices

(***************************************************************************)
(* ShARCGaurdrail.validate_instance(req, nonreq)                           *)
(*                                                                         *)
(* A row of req or nonreq is modelled by the columns the method reads:     *)
(* u (0), v (1), demand (2) and cost (5).  The rows of a matrix are kept   *)
(* as a set: every use of them (the graph, np.any, np.max) is independent  *)
(* of their order and of repeated rows.  Costs are non-negative integers,  *)
(* on which Dijkstra's algorithm returns the shortest-path lengths and on  *)
(* which the epsilon 1e-7 of line 59 changes no comparison.                *)
(***************************************************************************)
big_m == 1000000
SampleCount == 100

MaxReq == 2
MaxNonReq == 1
GuardPairs == {<<1, 2>>, <<2, 1>>, <<2, 3>>, <<3, 1>>}
GuardCosts == {0, 1, 2000000}
ReqRows == {[u |-> p[1], v |-> p[2], demand |-> d, cost |-> c] :
               p \in GuardPairs, d \in {1, 2}, c \in GuardCosts}
NonReqRows == {[u |-> p[1], v |-> p[2], demand |-> 0, cost |-> c] :
                  p \in GuardPairs, c \in GuardCosts}
Capacity == 1

RECURSIVE SubsetsUpTo(_, _)
SubsetsUpTo(S, m) ==
    IF m = 0 THEN {{}}
    ELSE LET smaller == SubsetsUpTo(S, m - 1)
         IN  smaller \cup {T \cup {x} : T \in smaller, x \in S}

\* all_arcs = np.vstack([req, nonreq])
all_arcs == req \cup nonreq

\* list(G.nodes()) after G.add_edge on every row
nodes == {a.u : a \in all_arcs} \cup {a.v : a \in all_arcs}

\* the nodes reachable from the nodes of S along the arcs
RECURSIVE Descendants(_, _)
Descendants(arcs, S) ==
    LET T == S \cup {a.v : a \in {b \in arcs : b.u \in S}}
    IN  IF T = S THEN S ELSE Descendants(arcs, T)

\* nx.is_strongly_connected(G), G not the null graph
is_strongly_connected(arcs) ==
    \A x \in nodes : nodes \subseteq Descendants(arcs, {x})

\* the weight Dijkstra gives a pair of nodes of the multigraph: the least
\* weight of the parallel arcs, math.inf when there is none
ArcWeight(arcs, a, b) ==
    LET ws == {x.cost : x \in {y \in arcs : y.u = a /\ y.v = b}}
    IN  IF ws = {} THEN Inf ELSE SetMin(ws)

\* dict(nx.all_pairs_dijkstra_path_length(G, weight='weight')): the
\* shortest-path lengths; a node that is not reached has no entry (Inf)
all_pairs_dijkstra_path_length(arcs) ==
    LET top == SetMax(nodes)
    IN  Walks([a \in 1..top |-> [b \in 1..top |-> ArcWeight(arcs, a, b)]],
              top, top)

\* dist_matrix[a].get(b, self.big_m)
Get(dm, a, b) == IF dm[a][b] = Inf THEN big_m ELSE dm[a][b]

Rank(status) ==
    CASE status = "PASS" -> 0
      [] status = "WARNING" -> 1
      [] status = "FAIL" -> 2

Issue(text, args) == [text |-> text, args |-> args]

NotConnectedIssue == Issue("Graph is not strongly connected.", <<>>)
CostIssue == Issue("Zero or negative costs detected.", <<>>)

\* line 36: report["Status"] = "WARNING"
CostStatus(status) == "WARNING"

\* lines 24-32: the report is created; nx.is_strongly_connected raises
\* NetworkXPointlessConcept on the null graph
CheckConnectivity ==
    /\ gpc = "connectivity"
    /\ IF nodes = {}
       THEN /\ gpc' = "raised"
            /\ graised' = "NetworkXPointlessConcept"
            /\ UNCHANGED report
       ELSE /\ gpc' = "cost"
            /\ report' = IF ~is_strongly_connected(all_arcs)
                         THEN [Status |-> "FAIL",
                               Issues |-> Append(report.Issues, NotConnectedIssue)]
                         ELSE report
            /\ UNCHANGED graised
    /\ UNCHANGED <<req, nonreq, Q, dist_matrix, samples, bvars, pvars>>

\* lines 35-37
CheckCost ==
    /\ gpc = "cost"
    /\ gpc' = "capacity"
    /\ report' = IF \E a \in all_arcs : a.cost <= 0
                 THEN [Status |-> CostStatus(report.Status),
                       Issues |-> Append(report.Issues, CostIssue)]
                 ELSE report
    /\ UNCHANGED <<req, nonreq, Q, dist_matrix, samples, graised, bvars, pvars>>

\* lines 40-43: np.max raises ValueError on an empty req
CheckCapacity ==
    /\ gpc = "capacity"
    /\ IF req = {}
       THEN /\ gpc' = "raised"
            /\ graised' = "ValueError"
            /\ UNCHANGED report
       ELSE LET max_q == SetMax({a.demand : a \in req})
            IN  /\ gpc' = "dijkstra"
                /\ report' = IF max_q > Q
                             THEN [Status |-> "FAIL",
                                   Issues |-> Append(report.Issues,
                                       Issue("Infeasible: Max demand", <<max_q, Q>>))]
                             ELSE report
                /\ UNCHANGED graised
    /\ UNCHANGED <<req, nonreq, Q, dist_matrix, samples, bvars, pvars>>

\* lines 48-52
Dijkstra ==
    /\ gpc = "dijkstra"
    /\ dist_matrix' = all_pairs_dijkstra_path_length(all_arcs)
    /\ gpc' = "sample"
    /\ UNCHANGED <<req, nonreq, Q, report, samples, graised, bvars, pvars>>

\* line 59: duw > duv + dvw + 1e-7
Violates(dm, u, v, w) == Get(dm, u, w) > Get(dm, u, v) + Get(dm, v, w)

\* lines 53-62: one iteration of the sampling loop; np.random.choice raises
\* ValueError when the graph has fewer than 3 nodes, and otherwise draws
\* any three distinct nodes in any order
Sample ==
    /\ gpc = "sample"
    /\ samples < SampleCount
    /\ samples' = samples + 1
    /\ IF Cardinality(nodes) < 3
       THEN /\ gpc' = "raised"
            /\ graised' = "ValueError"
            /\ UNCHANGED report
       ELSE /\ \E u, v, w \in nodes :
                 /\ u # v /\ v # w /\ u # w
                 /\ IF Violates(dist_matrix, u, v, w)
                    THEN /\ report' = [Status |-> "FAIL",
                                       Issues |-> Append(report.Issues,
                                           Issue("Triangle inequality violation at nodes",
                                                 <<u, v, w>>))]
                         /\ gpc' = "return"
                    ELSE /\ UNCHANGED report
                         /\ gpc' = IF samples' = SampleCount THEN "return" ELSE "sample"
            /\ UNCHANGED graised
    /\ UNCHANGED <<req, nonreq, Q, dist_matrix, bvars, pvars>>

\* line 64: return report
Return ==
    /\ gpc = "return"
    /\ gpc' = "returned"
    /\ UNCHANGED <<req, nonreq, Q, report, dist_matrix, samples, graised, bvars, pvars>>

BuildIdle ==
    /\ pc = "idle"
    /\ parsed = NoParsed
    /\ n = 0
    /\ edges = {}
    /\ nread = 0
    /\ dist_plain = <<>>
    /\ dist = <<>>
    /\ k = 0
    /\ depot = 0
    /\ capacity = 0
    /\ unreachable = <<>>
    /\ raised = ""
    /\ bundle = NoBundle

GuardNext ==
    CheckConnectivity \/ CheckCost \/ CheckCapacity \/ Dijkstra \/ Sample \/ Return

\* lines 17-24: the graph is built and the report is PASS with no issue
InitGuard ==
    /\ gpc = "connectivity"
    /\ req \in SubsetsUpTo(ReqRows, MaxReq)
    /\ nonreq \in SubsetsUpTo(NonReqRows, MaxNonReq)
    /\ Q = Capacity
    /\ report = [Status |-> "PASS", Issues |-> <<>>]
    /\ dist_matrix = <<>>
    /\ samples = 0
    /\ graised = ""
    /\ BuildIdle
    /\ ParserIdle

SpecGuard == InitGuard /\ [][GuardNext]_vars

\* the input is one on which validate_instance reaches its return: the
\* graph has at least 3 nodes and req has a row
GuardReturns == Cardinality(nodes) >= 3 /\ req # {}

\* C1: with PASS < WARNING < FAIL, no check of validate_instance lowers the
\* status of the report: after each step it is >= what it was before.
\* Stated for the inputs on which validate_instance returns a report.
C1_StatusNeverLowered ==
    [][GuardReturns => Rank(report'.Status) >= Rank(report.Status)]_vars

\* C5: the report returned for an arc set that is not strongly connected
\* has status FAIL and holds the issue "Graph is not strongly connected."
C5_NotConnectedFails ==
    (gpc = "returned" /\ ~is_strongly_connected(all_arcs)) =>
        /\ report.Status = "FAIL"
        /\ \E i \in 1..Len(report.Issues) : report.Issues[i] = NotConnectedIssue

\* C6: validate_instance never raises: every run ends with a report.
\* Stated for the inputs that hold at least one arc.
C6_NeverRaises == all_arcs # {} => gpc # "raised"

\* the arc set is strongly connected, every cost is positive and no demand
\* of req exceeds Q
GoodGraph ==
    /\ nodes # {}
    /\ is_strongly_connected(all_arcs)
    /\ \A a \in all_arcs : a.cost > 0
    /\ req # {}
    /\ \A a \in req : a.demand <= Q

\* C10: on a strongly connected arc set with positive costs and no demand
\* above Q, validate_instance returns PASS with no issue, whatever triples
\* are drawn.
C10_GoodGraphPasses ==
    (gpc \in {"returned", "raised"} /\ GoodGraph) =>
        /\ gpc = "returned"
        /\ report.Status = "PASS"
        /\ report.Issues = <<>>

(***************************************************************************)
(* parse_gdb_dat(path)                                                     *)
(*                                                                         *)
(* A line of the text, after strip_comment and strip, is modelled by what  *)
(* the parser tests on it: whether it is empty, whether it starts with     *)
(* LISTA_ARISTAS_REQ, whether PAIR_RE, COST_RE and DEM_RE each find a      *)
(* match (and the integers they capture), and whether HEADER_RE matches    *)
(* (and the normalized key and the coerced value it yields).               *)
(***************************************************************************)
MaxLines == 4

Line(blank, marker, pair, cost, dem, hdr, key, val, e) ==
    [blank |-> blank, marker |-> marker, pair |-> pair, cost |-> cost,
     dem |-> dem, hdr |-> hdr, key |-> key, val |-> val, edge |-> e]

Edge1 == [u |-> 1, v |-> 2, cost |-> 1, demand |-> 1, required |-> TRUE]
Edge2 == [u |-> 2, v |-> 3, cost |-> 2, demand |-> 1, required |-> TRUE]

Lines ==
    {   \* ""
        Line(TRUE, FALSE, FALSE, FALSE, FALSE, FALSE, "", NoneVal, Edge1),
        \* "LISTA_ARISTAS_REQ :"
        Line(FALSE, TRUE, FALSE, FALSE, FALSE, TRUE, "LISTA_ARISTAS_REQ", StrVal, Edge1),
        \* "lista_aristas_req (1,2) coste 1 demanda 1"
        Line(FALSE, TRUE, TRUE, TRUE, TRUE, FALSE, "", NoneVal, Edge1),
        \* "( 1, 2) coste 1 demanda 1"
        Line(FALSE, FALSE, TRUE, TRUE, TRUE, FALSE, "", NoneVal, Edge1),
        \* "demanda 1 coste 2 (2,3)"
        Line(FALSE, FALSE, TRUE, TRUE, TRUE, FALSE, "", NoneVal, Edge2),
        \* "(1,2) coste 1"
        Line(FALSE, FALSE, TRUE, TRUE, FALSE, FALSE, "", NoneVal, Edge1),
        \* "COMENTARIO : (1,2) coste 1 demanda 1"
        Line(FALSE, FALSE, TRUE, TRUE, TRUE, TRUE, "COMENTARIO", StrVal, Edge1),
        \* "VERTICES : 3"
        Line(FALSE, FALSE, FALSE, FALSE, FALSE, TRUE, "VERTICES", IntVal(3), Edge1)
    } \cup
    {   \* "ARISTAS_REQ : 0", "aristas req : 1", ..., "ARISTAS_REQ : two"
        Line(FALSE, FALSE, FALSE, FALSE, FALSE, TRUE, "ARISTAS_REQ", x, Edge1) :
            x \in {IntVal(0), IntVal(1), IntVal(2), IntVal(3), StrVal} }

\* meta[key] = val
Put(mt, key, val) ==
    [x \in DOMAIN mt \cup {key} |-> IF x = key THEN val ELSE mt[x]]

\* meta.get(key)
MetaGet(mt, key) == IF key \in DOMAIN mt THEN mt[key] ELSE NoneVal

\* the loop of line 47 moves to the next line of the text
NextLine(l) ==
    /\ nlines' = nlines + 1
    /\ line' = l
    /\ marker_lines' = marker_lines + (IF ~l.blank /\ l.marker THEN 1 ELSE 0)
    /\ UNCHANGED <<ppc, canonical, warnings, bvars, gvars>>

\* lines 49-50: an empty line is skipped
ReadBlank ==
    /\ ppc = "scan"
    /\ nlines < MaxLines
    /\ \E l \in Lines :
          /\ l.blank
          /\ NextLine(l)
    /\ UNCHANGED <<meta, required_edges, in_req_list, seen_req_header>>

\* lines 53-56: section start
ReadSectionStart ==
    /\ ppc = "scan"
    /\ nlines < MaxLines
    /\ \E l \in Lines :
          /\ ~l.blank
          /\ l.marker
          /\ NextLine(l)
    /\ in_req_list' = TRUE
    /\ seen_req_header' = TRUE
    /\ UNCHANGED <<meta, required_edges>>

\* lines 59-72: inside the list, all three of pair, cost and demand found
ReadEdge ==
    /\ ppc = "scan"
    /\ nlines < MaxLines
    /\ in_req_list
    /\ \E l \in Lines :
          /\ ~l.blank /\ ~l.marker
          /\ l.pair /\ l.cost /\ l.dem
          /\ required_edges' = Append(required_edges, l.edge)
          /\ NextLine(l)
    /\ UNCHANGED <<meta, in_req_list, seen_req_header>>

\* lines 75-80 with the else branch leaving the section as well
ReadJunkEndsSection ==
    /\ ppc = "scan"
    /\ nlines < MaxLines
    /\ in_req_list
    /\ \E l \in Lines :
          /\ ~l.blank /\ ~l.marker
          /\ ~(l.pair /\ l.cost /\ l.dem)
          /\ ~l.hdr
          /\ NextLine(l)
    /\ in_req_list' = FALSE
    /\ UNCHANGED <<meta, required_edges, seen_req_header>>

\* lines 75-80: inside the list, a line that is neither an edge nor a header
ReadJunk ==
    /\ ppc = "scan"
    /\ nlines < MaxLines
    /\ in_req_list
    /\ \E l \in Lines :
          /\ ~l.blank /\ ~l.marker
          /\ ~(l.pair /\ l.cost /\ l.dem)
          /\ ~l.hdr
          /\ NextLine(l)
    /\ UNCHANGED <<meta, required_edges, in_req_list, seen_req_header>>

\* lines 75-77 and 83-87: inside the list, a header ends the section and is
\* recorded in the same pass
ReadHeaderEndsSection ==
    /\ ppc = "scan"
    /\ nlines < MaxLines
    /\ in_req_list
    /\ \E l \in Lines :
          /\ ~l.blank /\ ~l.marker
          /\ ~(l.pair /\ l.cost /\ l.dem)
          /\ l.hdr
          /\ meta' = Put(meta, l.key, l.val)
          /\ NextLine(l)
    /\ in_req_list' = FALSE
    /\ UNCHANGED <<required_edges, seen_req_header>>

\* lines 83-87: outside the list, a header is recorded
ReadHeader ==
    /\ ppc = "scan"
    /\ nlines < MaxLines
    /\ ~in_req_list
    /\ \E l \in Lines :
          /\ ~l.blank /\ ~l.marker
          /\ l.hdr
          /\ meta' = Put(meta, l.key, l.val)
          /\ NextLine(l)
    /\ UNCHANGED <<required_edges, in_req_list, seen_req_header>>

\* lines 83-84: outside the list, any other line is passed over
ReadOther ==
    /\ ppc = "scan"
    /\ nlines < MaxLines
    /\ ~in_req_list
    /\ \E l \in Lines :
          /\ ~l.blank /\ ~l.marker
          /\ ~l.hdr
          /\ NextLine(l)
    /\ UNCHANGED <<meta, required_edges, in_req_list, seen_req_header>>

\* lines 89-100
Canonical(mt) ==
    [name |-> MetaGet(mt, "NOMBRE"),
     comment |-> MetaGet(mt, "COMENTARIO"),
     n_vertices |-> MetaGet(mt, "VERTICES"),
     n_req |-> MetaGet(mt, "ARISTAS_REQ"),
     n_noreq |-> MetaGet(mt, "ARISTAS_NOREQ"),
     n_vehicles |-> MetaGet(mt, "VEHICULOS"),
     capacity |-> MetaGet(mt, "CAPACIDAD"),
     req_total_cost |-> MetaGet(mt, "COSTE_TOTAL_REQ"),
     depot |-> MetaGet(mt, "DEPOSITO"),
     cost_type |-> MetaGet(mt, "TIPO_COSTES_ARISTAS")]

\* line 107 with the header's value left as text, which never equals a count
CountDisagreesUncoerced(n_req, count) == n_req.kind # "none"

\* line 107: canonical["n_req"] is not None and canonical["n_req"] != len(...)
CountDisagrees(n_req, count) ==
    /\ n_req.kind # "none"
    /\ ~(n_req.kind = "int" /\ n_req.val = count)

Warning(text, args) == [text |-> text, args |-> args]

\* lines 102-108
Warnings(mt, seen, n_req, count) ==
    (IF DOMAIN mt = {} THEN <<Warning("No headers parsed", <<>>)>> ELSE <<>>)
    \o (IF ~seen
        THEN <<Warning("Did not find LISTA_ARISTAS_REQ section header.", <<>>)>>
        ELSE <<>>)
    \o (IF CountDisagrees(n_req, count)
        THEN <<Warning("ARISTAS_REQ says but parsed edges", <<n_req, count>>)>>
        ELSE <<>>)

\* lines 89-115: the text is exhausted
EndOfText ==
    /\ ppc = "scan"
    /\ ppc' = "done"
    /\ canonical' = Canonical(meta)
    /\ warnings' = Warnings(meta, seen_req_header,
                            Canonical(meta).n_req, Len(required_edges))
    /\ UNCHANGED <<meta, required_edges, in_req_list, seen_req_header,
                   nlines, line, marker_lines, bvars, gvars>>

ParseNext ==
    \/ ReadBlank \/ ReadSectionStart \/ ReadEdge \/ ReadJunk
    \/ ReadHeaderEndsSection \/ ReadHeader \/ ReadOther
    \/ EndOfText

\* lines 41-45
InitParse ==
    /\ ppc = "scan"
    /\ meta = <<>>
    /\ required_edges = <<>>
    /\ in_req_list = FALSE
    /\ seen_req_header = FALSE
    /\ canonical = <<>>
    /\ warnings = <<>>
    /\ nlines = 0
    /\ line = NoLine
    /\ marker_lines = 0
    /\ BuildIdle
    /\ GuardIdle

SpecParse == InitParse /\ [][ParseNext]_vars

\* C7: when the text holds a LISTA_ARISTAS_REQ line and the ARISTAS_REQ
\* header declares the number of edges parsed, parse_gdb_dat returns no
\* warning.
C7_NoWarnings ==
    (/\ ppc = "done"
     /\ marker_lines > 0
     /\ canonical.n_req = IntVal(Len(required_edges))) =>
        warnings = <<>>

\* C7 witness: a section of two edges under a header that declares two
C7_Witness ==
    /\ ppc = "done"
    /\ marker_lines > 0
    /\ canonical.n_req = IntVal(2)
    /\ Len(required_edges) = 2
    /\ warnings = <<>>

\* a pass of the loop of line 47 has read the non-blank line line'
Processed == ppc = "scan" /\ nlines' = nlines + 1 /\ ~line'.blank

\* PAIR_RE, COST_RE and DEM_RE all find a match in l
HasEdge(l) == l.pair /\ l.cost /\ l.dem

\* what C12 says of a line l read in IN_REQUIRED_EDGE_LIST: (a) an edge is
\* appended and the state stays, (b) else a header ends the section and is
\* recorded, (c) else nothing changes
ListTransition(l) ==
    IF HasEdge(l)
    THEN /\ required_edges' = Append(required_edges, l.edge)
         /\ in_req_list'
    ELSE IF l.hdr
    THEN /\ ~in_req_list'
         /\ meta' = Put(meta, l.key, l.val)
    ELSE UNCHANGED <<in_req_list, meta, required_edges>>

\* C12 as stated: every non-blank line read in IN_REQUIRED_EDGE_LIST makes
\* transition (a), (b) or (c), and no edge is appended in NORMAL.
C12_Transitions ==
    [][Processed =>
          /\ in_req_list => ListTransition(line')
          /\ ~in_req_list => required_edges' = required_edges]_vars

\* C12 amended: every non-blank line read in IN_REQUIRED_EDGE_LIST that does
\* not start with LISTA_ARISTAS_REQ makes transition (a), (b) or (c); a line
\* that starts with LISTA_ARISTAS_REQ leaves the state, the header map and
\* the edge list as they are; and no edge is appended in NORMAL.
C12_TransitionsOfListLines ==
    [][Processed =>
          /\ (in_req_list /\ ~line'.marker) => ListTransition(line')
          /\ (in_req_list /\ line'.marker) =>
                 UNCHANGED <<in_req_list, meta, required_edges>>
          /\ ~in_req_list => required_edges' = required_edges]_vars

\* C12 witness: four lines read, among them the marker, an edge line (a)
\* and last a header that ended the section and was recorded (b)
C12_Witness ==
    /\ ppc = "scan"
    /\ nlines = 4
    /\ seen_req_header
    /\ ~in_req_list
    /\ Len(required_edges) = 1
    /\ line.hdr /\ ~HasEdge(line)
    /\ line.key \in DOMAIN meta
    /\ meta[line.key] = line.val

====
